---- MODULE Spec2Model ----
(***************************************************************************)
(* Model of the URL shortener of src/app.js: the in-memory registry        *)
(* urlDatabase and the three Express handlers POST /shorten,               *)
(* GET /:shortCode and GET /analytics/:shortCode.                          *)
(*                                                                         *)
(* Node runs every handler to completion on one thread and no handler      *)
(* awaits anything, so each handler is one atomic action.                  *)
(*                                                                         *)
(* Strings that the code inspects character by character (short codes)     *)
(* are sequences of one-character strings; strings it only stores and      *)
(* returns (long URLs) are TLA+ strings.                                   *)
(***************************************************************************)
EXTENDS Integers, Sequences, FiniteSets, TLC

VARIABLES
    urlDatabase,   \* own properties of the object urlDatabase: code -> record
    now,           \* the clock read by Date.now() / new Date(), in ms
    ticks,         \* how many times the clock has advanced
    res,           \* the response to the request served last, at the current
                   \* reading of the clock
    hist,          \* history: for each present record, what created it and
                   \* how many redirects it has served
    gone,          \* history: codes whose latest outcome was 410 Gone and
                   \* that no later insertion has registered again
    call           \* a helper function run on its own: where it stands
                   \* and what it returned

vars == <<urlDatabase, now, ticks, res, hist, gone, call>>

---------------------------------------------------------------------------
(* Bounds of the model *)

\* The clock advances at most this many times.
MaxTicks == 2

\* A record serves at most this many redirects.
MaxClicks == 2

---------------------------------------------------------------------------
(* Characters and strings *)

Lower == {"a","b","c","d","e","f","g","h","i","j","k","l","m",
          "n","o","p","q","r","s","t","u","v","w","x","y","z"}
Upper == {"A","B","C","D","E","F","G","H","I","J","K","L","M",
          "N","O","P","Q","R","S","T","U","V","W","X","Y","Z"}
Digit == {"0","1","2","3","4","5","6","7","8","9"}

\* The character class [a-zA-Z0-9] of the regular expression of line 79.
AlnumChars == Lower \cup Upper \cup Digit

\* /^[a-zA-Z0-9]+$/.test(code): one or more characters, all of the class.
MatchesAlnum(code) ==
    /\ Len(code) >= 1
    /\ \A i \in 1..Len(code) : code[i] \in AlnumChars

\* A faulty variant: the length limits of line 83 are taken as exclusive.
isValidShortCode_Exclusive(code) ==
    IF ~MatchesAlnum(code) THEN FALSE
    ELSE IF Len(code) <= 4 \/ Len(code) >= 15 THEN FALSE
    ELSE TRUE

\* A faulty variant: the character test of line 79 is missing.
isValidShortCode_LengthOnly(code) ==
    IF Len(code) < 4 \/ Len(code) > 15 THEN FALSE
    ELSE TRUE

\* isValidShortCode(code), lines 77-87.
isValidShortCode(code) ==
    IF ~MatchesAlnum(code) THEN FALSE
    ELSE IF Len(code) < 4 \/ Len(code) > 15 THEN FALSE
    ELSE TRUE

\* The longest code isValidShortCode is called with.
MaxCodeLen == 17

\* Characters outside the class.
OtherChars == {"$", "_", "-", " "}

\* The codes isValidShortCode is called with: of every length up to
\* MaxCodeLen, alphanumeric throughout or with one other character at one
\* place (p = 0, or p beyond the end, leaves the code alphanumeric).
CodeSample ==
    { [ i \in 1..n |-> IF i = p THEN ch ELSE <<"a", "Z", "7">>[(i % 3) + 1] ] :
        n \in 0..MaxCodeLen, p \in 0..MaxCodeLen, ch \in OtherChars }

\* A faulty variant: a generator configured with characters outside the
\* URL-friendly alphabet.
ShortidAlphabet_OtherCharacters == AlnumChars \cup {"_", "-", "$", "@"}

\* The alphabet shortid draws its identifiers from: the 62 alphanumerics
\* and the two URL-friendly characters "_" and "-".
ShortidAlphabet == AlnumChars \cup {"_", "-"}

\* Strings of the length of a shortid identifier.
IdentifierSample ==
    { <<"K","q","7","p","L","m","2">>,
      <<"a","B","3","_","x","-","9">>,
      <<"a","B","3","$","x","@","9">> }

\* The identifiers shortid.generate() can return in this model: those of
\* the sample that are written in its alphabet, one purely alphanumeric,
\* one not.
ShortidDraws ==
    { id \in IdentifierSample : \A i \in 1..Len(id) : id[i] \in ShortidAlphabet }

\* The empty string; an absent customShortCode is as falsy as an empty one.
NoCode == <<>>

\* "constructor": a property every object literal inherits from
\* Object.prototype, so urlDatabase["constructor"] is the (truthy) function
\* Object although no record was ever stored under it.
ObjectPrototypeKeys == { <<"c","o","n","s","t","r","u","c","t","o","r">> }

\* customShortCode values of the request bodies.
CustomInputs ==
    { NoCode,
      <<"a","b">>,
      <<"K","q","7","p","L","m","2">> }
    \cup ObjectPrototypeKeys

\* customShortCode values of the request bodies, with the rejected ones of
\* every kind: too short, a character outside the class, too long.
RequestCustomCodes ==
    { NoCode,
      <<"a","b">>,
      <<"v","a","l","i","d","$","c","o","d","e">>,
      <<"a","b","c","d","e","f","g","h","i","j","k","l","m","n","o","p">>,
      <<"K","q","7","p","L","m","2">> }

\* :shortCode values of the request paths.
PathCodes == ShortidDraws \cup ObjectPrototypeKeys

---------------------------------------------------------------------------
(* Long URLs *)

\* JavaScript's undefined (a missing body field, a missing property).
Undefined == "undefined"

\* The inputs new URL() accepts among LongUrlInputs: an absolute URL.
WellFormedURLs == { "https://example.com", "https://example.org/a" }

\* longUrl values of the request bodies.
LongUrlInputs == WellFormedURLs \cup { Undefined, "not-a-url" }

\* longUrl values of the request bodies, with the rejected ones of every
\* kind: missing, empty, no URL at all, a relative reference.
RequestLongUrls ==
    { Undefined, "", "not-a-url", "/relative/path", "https://example.com" }

\* !longUrl, line 112.
Falsy(longUrl) == longUrl = Undefined \/ longUrl = ""

\* new URL(longUrl) does not throw, lines 115-119.
ParsesAsURL(longUrl) == longUrl \in WellFormedURLs

---------------------------------------------------------------------------
(* validityMinutes and dates *)

\* validityMinutes values of the request bodies. "huge" stands for a number
\* so large that Date.now() + minutes * 60 * 1000 exceeds the range of a
\* Date (8.64e15 ms), such as 1e12.
ValidityInputs ==
    { [t |-> "undefined", n |-> 0],
      [t |-> "number", n |-> 1],
      [t |-> "huge", n |-> 0] }

\* validityMinutes values of the request bodies, of every kind. A value is
\* written by its kind t and the integer n its decimal text starts with:
\*   "string"   a text with no leading digits, such as "abc";
\*   "number"   the integer n, whose text is its digits;
\*   "fraction" n + 0.5, whose text is n followed by ".5";
\*   "tiny"     n * 10^-7, whose text is n followed by "e-7" (a number
\*              below 10^-6 is written with an exponent);
\*   "giant"    n * 10^21, whose text is n followed by "e+21" (a number
\*              from 10^21 on is written with an exponent).
RequestValidities ==
    ValidityInputs \cup
    { [t |-> "string", n |-> 0],
      [t |-> "number", n |-> -1],
      [t |-> "number", n |-> 0],
      [t |-> "number", n |-> 2],
      [t |-> "fraction", n |-> 0],
      [t |-> "fraction", n |-> 1],
      [t |-> "tiny", n |-> 2],
      [t |-> "giant", n |-> 1] }

\* parseInt(validityMinutes), line 139: the argument is turned into its
\* text, and the integer is read from the leading sign and digits of that
\* text, up to the first other character ("." or "e"); NaN when there are
\* none.
ParseInt(v) ==
    IF v.t \in {"undefined", "string"} THEN [nan |-> TRUE, huge |-> FALSE, n |-> 0]
    ELSE IF v.t = "huge" THEN [nan |-> FALSE, huge |-> TRUE, n |-> 0]
    ELSE [nan |-> FALSE, huge |-> FALSE, n |-> v.n]

\* The default validity, line 141.
DefaultMinutes == 30

\* Lines 139-142: the minutes the record lives.
Minutes(v) ==
    LET p == ParseInt(v) IN
    IF p.nan \/ (~p.huge /\ p.n <= 0)
    THEN [huge |-> FALSE, n |-> DefaultMinutes]
    ELSE [huge |-> p.huge, n |-> p.n]

\* A Date whose time value is NaN.
InvalidDate == [valid |-> FALSE, ms |-> 0]

\* new Date(Date.now() + minutes * 60 * 1000), line 145.
ExpiresAt(t, minutes) ==
    IF minutes.huge THEN InvalidDate
    ELSE [valid |-> TRUE, ms |-> t + minutes.n * 60 * 1000]

\* A faulty variant: the entry already expires at expiresAt itself.
DateGT_NonStrict(t, d) == d.valid /\ t >= d.ms

\* new Date() > expiresAt, line 180: a comparison with NaN is false.
DateGT(t, d) == d.valid /\ t > d.ms

\* d.toISOString() of a valid date: the time split into its minute, second
\* and millisecond fields.
ToISOString(d) == << d.ms \div 60000, (d.ms % 60000) \div 1000, d.ms % 1000 >>

NoISO == <<>>

---------------------------------------------------------------------------
(* The registry *)

\* A faulty variant: an expired record no longer counts as in use.
Truthy_LiveOnly(db, code) ==
    \/ code \in DOMAIN db /\ ~DateGT(now, db[code].expiresAt)
    \/ code \in ObjectPrototypeKeys

\* urlDatabase[code] is truthy: an own record, or an inherited member.
Truthy(db, code) == code \in DOMAIN db \/ code \in ObjectPrototypeKeys

\* A faulty variant: the draw is returned without the look-up of line 70.
generateShortCode_Unchecked(db) == ShortidDraws

\* generateShortCode(), lines 66-72: the draws the loop can end with.
generateShortCode(db) == { c \in ShortidDraws : ~Truthy(db, c) }

\* A faulty variant: the record keeps the parsed URL's normalised href,
\* which adds the "/" path to a URL that has none.
NewRecord_Normalised(longUrl, expiresAt, customShortCodeUsed) ==
    [ originalUrl |-> IF longUrl = "https://example.com"
                      THEN "https://example.com/" ELSE longUrl,
      expiresAt   |-> expiresAt,
      custom      |-> customShortCodeUsed,
      clicks      |-> 0 ]

\* The record stored at lines 148-153.
NewRecord(longUrl, expiresAt, customShortCodeUsed) ==
    [ originalUrl |-> longUrl,
      expiresAt   |-> expiresAt,
      custom      |-> customShortCodeUsed,
      clicks      |-> 0 ]

\* urlDatabase[shortCode] = record.
Put(db, code, rec) == [ k \in DOMAIN db \cup {code} |-> IF k = code THEN rec ELSE db[k] ]

\* A faulty variant: the expired entry is left in place.
Delete_Noop(db, code) == db

\* delete urlDatabase[shortCode].
Delete(db, code) == [ k \in DOMAIN db \ {code} |-> db[k] ]

\* A faulty variant: a followed link gets a fresh default validity.
IncrementClicks_Refreshing(db, code) ==
    [ db EXCEPT ![code].clicks = @ + 1,
                ![code].expiresAt = [valid |-> TRUE, ms |-> now + DefaultMinutes * 60 * 1000] ]

\* A faulty variant: the incremented count is written to a copy of the
\* record, and the stored record keeps its count.
IncrementClicks_Lost(db, code) == db

\* A faulty variant: a click is counted twice.
IncrementClicks_Twice(db, code) == [ db EXCEPT ![code].clicks = @ + 2 ]

\* urlEntry.clicks++ on an own record, line 187.
IncrementClicks(db, code) == [ db EXCEPT ![code].clicks = @ + 1 ]

\* A response: the request (op, the code it named) and what was sent (the
\* status; the fields of the JSON body, or the address handed to
\* res.redirect as url).
Response(op, arg, status, shortCode, url, clicks, expiresAt, custom) ==
    [ op |-> op, arg |-> arg, status |-> status, shortCode |-> shortCode,
      url |-> url, clicks |-> clicks, expiresAt |-> expiresAt, custom |-> custom ]

ErrorResponse(op, arg, status) ==
    Response(op, arg, status, NoCode, Undefined, 0, NoISO, FALSE)

\* No request has been served since the clock last advanced.
NoResponse == ErrorResponse("none", NoCode, 0)

\* A helper call: the function, where it stands (pc), the code it holds
\* (its argument, or the candidate drawn last) and the boolean it returned.
Call(fn, pc, code, ret) == [ fn |-> fn, pc |-> pc, code |-> code, ret |-> ret ]

\* No helper runs on its own: the handlers call them inside their step.
NoCall == Call("none", "idle", NoCode, FALSE)

---------------------------------------------------------------------------
(* Initial state: an empty registry, no request served yet *)

Init ==
    /\ urlDatabase = << >>
    /\ now = 0
    /\ ticks = 0
    /\ res = NoResponse
    /\ hist = << >>
    /\ gone = {}
    /\ call = NoCall

---------------------------------------------------------------------------
(* POST /shorten, lines 108-164 *)

Shorten(longUrl, customShortCode, validityMinutes) ==
    IF Falsy(longUrl) \/ ~ParsesAsURL(longUrl)
    THEN \* lines 112-119: 400, nothing stored
         /\ res' = ErrorResponse("shorten", customShortCode, 400)
         /\ UNCHANGED <<urlDatabase, now, ticks, hist, gone, call>>
    ELSE IF customShortCode # NoCode /\ ~isValidShortCode(customShortCode)
    THEN \* lines 126-128
         /\ res' = ErrorResponse("shorten", customShortCode, 400)
         /\ UNCHANGED <<urlDatabase, now, ticks, hist, gone, call>>
    ELSE IF customShortCode # NoCode /\ Truthy(urlDatabase, customShortCode)
    THEN \* lines 129-131
         /\ res' = ErrorResponse("shorten", customShortCode, 409)
         /\ UNCHANGED <<urlDatabase, now, ticks, hist, gone, call>>
    ELSE \* lines 132-163
         \E shortCode \in ( IF customShortCode # NoCode
                            THEN {customShortCode}
                            ELSE generateShortCode(urlDatabase) ) :
            LET customShortCodeUsed == customShortCode # NoCode
                expiresAt == ExpiresAt(now, Minutes(validityMinutes))
                \* expiresAt.toISOString() throws a RangeError on an invalid
                \* date, after the record was stored: Express answers 500.
                status == IF expiresAt.valid THEN 201 ELSE 500
            IN  /\ urlDatabase' = Put(urlDatabase, shortCode,
                                      NewRecord(longUrl, expiresAt, customShortCodeUsed))
                /\ res' = IF expiresAt.valid
                          THEN Response("shorten", customShortCode, 201, shortCode,
                                        longUrl, 0, ToISOString(expiresAt),
                                        customShortCodeUsed)
                          ELSE ErrorResponse("shorten", customShortCode, 500)
                /\ hist' = Put(hist, shortCode,
                               [longUrl |-> longUrl, status |-> status, redirects |-> 0])
                /\ gone' = gone \ {shortCode}
                /\ UNCHANGED <<now, ticks, call>>

---------------------------------------------------------------------------
(* GET /:shortCode, lines 170-193 *)

Redirect(shortCode) ==
    IF ~Truthy(urlDatabase, shortCode)
    THEN \* lines 175-177
         /\ res' = ErrorResponse("redirect", shortCode, 404)
         /\ UNCHANGED <<urlDatabase, now, ticks, hist, gone, call>>
    ELSE IF shortCode \notin DOMAIN urlDatabase
    THEN \* urlEntry is an inherited member: its expiresAt is undefined, so
         \* the comparison of line 180 is false; clicks++ leaves NaN in a
         \* property of that member (the function Object), which is no
         \* property of urlDatabase and which no handler reads back; its
         \* originalUrl is undefined, and that is the address handed to
         \* res.redirect(301, ...).
         /\ res' = Response("redirect", shortCode, 301, NoCode, Undefined, 0, NoISO, FALSE)
         /\ UNCHANGED <<urlDatabase, now, ticks, hist, gone, call>>
    ELSE IF DateGT(now, urlDatabase[shortCode].expiresAt)
    THEN \* lines 180-184
         /\ urlDatabase' = Delete(urlDatabase, shortCode)
         /\ res' = ErrorResponse("redirect", shortCode, 410)
         /\ hist' = Delete(hist, shortCode)
         /\ gone' = gone \cup {shortCode}
         /\ UNCHANGED <<now, ticks, call>>
    ELSE \* lines 187-190
         /\ urlDatabase[shortCode].clicks < MaxClicks
         /\ urlDatabase' = IncrementClicks(urlDatabase, shortCode)
         /\ res' = Response("redirect", shortCode, 301, NoCode,
                            urlDatabase[shortCode].originalUrl, 0, NoISO, FALSE)
         /\ hist' = [hist EXCEPT ![shortCode].redirects = @ + 1]
         /\ UNCHANGED <<now, ticks, gone, call>>

---------------------------------------------------------------------------
(* GET /analytics/:shortCode, lines 196-211 *)

\* A faulty variant: analytics evicts an expired entry as the redirect does.
Analytics_Evicting(shortCode) ==
    IF shortCode \in DOMAIN urlDatabase
       /\ DateGT(now, urlDatabase[shortCode].expiresAt)
    THEN /\ urlDatabase' = Delete(urlDatabase, shortCode)
         /\ res' = ErrorResponse("analytics", shortCode, 410)
         /\ hist' = Delete(hist, shortCode)
         /\ gone' = gone \cup {shortCode}
         /\ UNCHANGED <<now, ticks, call>>
    ELSE /\ res' = IF ~Truthy(urlDatabase, shortCode)
                   THEN ErrorResponse("analytics", shortCode, 404)
                   ELSE IF shortCode \notin DOMAIN urlDatabase
                           \/ ~urlDatabase[shortCode].expiresAt.valid
                   THEN ErrorResponse("analytics", shortCode, 500)
                   ELSE Response("analytics", shortCode, 200, shortCode,
                                 urlDatabase[shortCode].originalUrl,
                                 urlDatabase[shortCode].clicks,
                                 ToISOString(urlDatabase[shortCode].expiresAt),
                                 urlDatabase[shortCode].custom)
         /\ UNCHANGED <<urlDatabase, now, ticks, hist, gone, call>>

\* A faulty variant: analytics answers 404 for an expired entry.
Analytics_ExpiryChecked(shortCode) ==
    /\ res' = IF ~Truthy(urlDatabase, shortCode)
              THEN ErrorResponse("analytics", shortCode, 404)
              ELSE IF shortCode \notin DOMAIN urlDatabase
                      \/ ~urlDatabase[shortCode].expiresAt.valid
              THEN ErrorResponse("analytics", shortCode, 500)
              ELSE IF DateGT(now, urlDatabase[shortCode].expiresAt)
              THEN ErrorResponse("analytics", shortCode, 404)
              ELSE Response("analytics", shortCode, 200, shortCode,
                            urlDatabase[shortCode].originalUrl,
                            urlDatabase[shortCode].clicks,
                            ToISOString(urlDatabase[shortCode].expiresAt),
                            urlDatabase[shortCode].custom)
    /\ UNCHANGED <<urlDatabase, now, ticks, hist, gone, call>>

Analytics(shortCode) ==
    /\ res' = IF ~Truthy(urlDatabase, shortCode)
              THEN \* lines 200-202
                   ErrorResponse("analytics", shortCode, 404)
              ELSE IF shortCode \notin DOMAIN urlDatabase
              THEN \* an inherited member has no expiresAt: reading
                   \* undefined.toISOString throws a TypeError, 500
                   ErrorResponse("analytics", shortCode, 500)
              ELSE IF ~urlDatabase[shortCode].expiresAt.valid
              THEN \* toISOString() of an invalid date throws a RangeError
                   ErrorResponse("analytics", shortCode, 500)
              ELSE \* lines 204-210
                   Response("analytics", shortCode, 200, shortCode,
                            urlDatabase[shortCode].originalUrl,
                            urlDatabase[shortCode].clicks,
                            ToISOString(urlDatabase[shortCode].expiresAt),
                            urlDatabase[shortCode].custom)
    /\ UNCHANGED <<urlDatabase, now, ticks, hist, gone, call>>

---------------------------------------------------------------------------
(* The passing of time, a minute at a time *)

\* A faulty variant: a sweeper removes the expired records as time passes.
Tick_Sweeping ==
    /\ ticks < MaxTicks
    /\ now' = now + 60 * 1000
    /\ ticks' = ticks + 1
    /\ res' = NoResponse
    /\ LET live == { k \in DOMAIN urlDatabase : ~DateGT(now', urlDatabase[k].expiresAt) }
       IN  /\ urlDatabase' = [ k \in live |-> urlDatabase[k] ]
           /\ hist' = [ k \in live |-> hist[k] ]
    /\ UNCHANGED <<gone, call>>

Tick ==
    /\ ticks < MaxTicks
    /\ now' = now + 60 * 1000
    /\ ticks' = ticks + 1
    /\ res' = NoResponse
    /\ UNCHANGED <<urlDatabase, hist, gone, call>>

---------------------------------------------------------------------------

Next ==
    \/ \E longUrl \in LongUrlInputs, customShortCode \in CustomInputs,
          validityMinutes \in ValidityInputs :
            Shorten(longUrl, customShortCode, validityMinutes)
    \/ \E shortCode \in PathCodes : Redirect(shortCode)
    \/ \E shortCode \in PathCodes : Analytics(shortCode)
    \/ Tick

Spec == Init /\ [][Next]_vars

\* The service under POST /shorten requests only, with request bodies of
\* every kind.
NextInputs ==
    \/ \E longUrl \in RequestLongUrls, customShortCode \in RequestCustomCodes,
          validityMinutes \in RequestValidities :
            Shorten(longUrl, customShortCode, validityMinutes)
    \/ Tick

SpecInputs == Init /\ [][NextInputs]_vars

---------------------------------------------------------------------------
(* isValidShortCode called on its own, lines 77-87 *)

\* Registries the service can hold when a helper is called: the empty one,
\* and one with a record under a custom code.
SampleRegistries ==
    { << >>,
      Put(<< >>, <<"K","q","7","p","L","m","2">>,
          NewRecord("https://example.com", ExpiresAt(0, Minutes([t |-> "number", n |-> 1])),
                    TRUE)) }

\* The history that goes with a registry of records not yet followed.
HistoryOf(db) ==
    [ c \in DOMAIN db |->
        [longUrl |-> db[c].originalUrl, status |-> 201, redirects |-> db[c].clicks] ]

InitValidate ==
    /\ urlDatabase \in SampleRegistries
    /\ now = 0
    /\ ticks = 0
    /\ res = NoResponse
    /\ hist = HistoryOf(urlDatabase)
    /\ gone = {}
    /\ call \in { Call("isValidShortCode", "called", code, FALSE) : code \in CodeSample }

\* The call runs and returns.
isValidShortCodeCall ==
    /\ call.fn = "isValidShortCode" /\ call.pc = "called"
    /\ call' = Call("isValidShortCode", "returned", call.code, isValidShortCode(call.code))
    /\ UNCHANGED <<urlDatabase, now, ticks, res, hist, gone>>

NextValidate == isValidShortCodeCall

SpecValidate == InitValidate /\ [][NextValidate]_vars

---------------------------------------------------------------------------
(* generateShortCode run step by step, lines 66-72 *)

\* Records of generated codes, new or followed a few times.
SampleRecords ==
    { [ NewRecord(longUrl, ExpiresAt(0, Minutes([t |-> "number", n |-> 1])), FALSE)
          EXCEPT !.clicks = k ] :
        longUrl \in WellFormedURLs, k \in 0..MaxClicks }

\* The registries the loop can meet: none, some or all of the identifiers
\* shortid can draw are keys.
GenerateRegistries ==
    UNION { [ keys -> SampleRecords ] : keys \in SUBSET ShortidDraws }

InitGenerate ==
    /\ urlDatabase \in GenerateRegistries
    /\ now = 0
    /\ ticks = 0
    /\ res = NoResponse
    /\ hist = HistoryOf(urlDatabase)
    /\ gone = {}
    /\ call = Call("generateShortCode", "draw", NoCode, FALSE)

\* Line 69: code = shortid.generate().
generateShortCodeDraw(id) ==
    /\ call.fn = "generateShortCode" /\ call.pc = "draw"
    /\ call' = Call("generateShortCode", "test", id, FALSE)
    /\ UNCHANGED <<urlDatabase, now, ticks, res, hist, gone>>

\* A faulty variant: the loop goes on while the code is not in use.
generateShortCodeTest_Inverted ==
    /\ call.fn = "generateShortCode" /\ call.pc = "test"
    /\ call' = Call("generateShortCode",
                    IF ~Truthy(urlDatabase, call.code) THEN "draw" ELSE "returned",
                    call.code, FALSE)
    /\ UNCHANGED <<urlDatabase, now, ticks, res, hist, gone>>

\* Lines 70-71: while (urlDatabase[code]) goes round again, else the code
\* is returned.
generateShortCodeTest ==
    /\ call.fn = "generateShortCode" /\ call.pc = "test"
    /\ call' = Call("generateShortCode",
                    IF Truthy(urlDatabase, call.code) THEN "draw" ELSE "returned",
                    call.code, FALSE)
    /\ UNCHANGED <<urlDatabase, now, ticks, res, hist, gone>>

NextGenerate ==
    \/ \E id \in ShortidDraws : generateShortCodeDraw(id)
    \/ generateShortCodeTest

\* The loop keeps running, and its draws are fair: an identifier shortid
\* can draw is drawn sooner or later when the loop keeps drawing.
SpecGenerate ==
    /\ InitGenerate
    /\ [][NextGenerate]_vars
    /\ WF_vars(generateShortCodeTest)
    /\ \A id \in ShortidDraws : SF_vars(generateShortCodeDraw(id))

---------------------------------------------------------------------------
(* Properties.  A step is a request of kind op naming code c exactly when   *)
(* res'.op = op and res'.arg = c: every request writes res, and the clock   *)
(* clears it.  In an action formula the unprimed urlDatabase is the         *)
(* registry the request found, the primed one the registry it left.         *)

\* The record's expiry time has passed at time t.
Expired(rec, t) == rec.expiresAt.valid /\ t > rec.expiresAt.ms

\* Every record the request found is still there, unchanged.
OthersKept(code) ==
    \A k \in DOMAIN urlDatabase \ {code} :
        k \in DOMAIN urlDatabase' /\ urlDatabase'[k] = urlDatabase[k]

\* C1: POST /shorten with a customShortCode that is a key of the registry
\* leaves the whole registry as it was, whether the record under that key
\* is live or expired and not yet evicted, and answers 409; the only other
\* answer is the 400 of a request whose longUrl is not well formed (no
\* request with a well-formed longUrl makes that step).
C1_ConflictOnExistingCode ==
    [][ ( res'.op = "shorten" /\ res'.arg \in DOMAIN urlDatabase )
        => /\ urlDatabase' = urlDatabase
           /\ \/ res'.status = 409
              \/ /\ res'.status = 400
                 /\ \A longUrl \in WellFormedURLs,
                       validityMinutes \in ValidityInputs :
                       ~Shorten(longUrl, res'.arg, validityMinutes) ]_vars

\* C1, its case: a conflict answered for a record that had already expired,
\* which is still in the registry afterwards.
C1_Witness ==
    /\ res.op = "shorten" /\ res.status = 409
    /\ res.arg \in DOMAIN urlDatabase
    /\ Expired(urlDatabase[res.arg], now)

\* C2: POST /shorten with a well-formed longUrl and a customShortCode that
\* passes isValidShortCode and is no key of the registry answers 201 with
\* customShortCodeUsed = true and that very code, and the registry gains
\* exactly one entry, under that code, with clicks = 0 and custom = true.
C2_ValidUnusedCustomCodeSucceeds ==
    [][ \A longUrl \in WellFormedURLs, validityMinutes \in ValidityInputs :
          ( /\ res'.op = "shorten"
            /\ res'.arg # NoCode
            /\ isValidShortCode(res'.arg)
            /\ res'.arg \notin DOMAIN urlDatabase
            /\ Shorten(longUrl, res'.arg, validityMinutes) )
          => ( /\ res'.status = 201
               /\ res'.custom = TRUE
               /\ res'.shortCode = res'.arg
               /\ DOMAIN urlDatabase' = DOMAIN urlDatabase \cup {res'.arg}
               /\ urlDatabase'[res'.arg].clicks = 0
               /\ urlDatabase'[res'.arg].custom = TRUE
               /\ OthersKept(res'.arg) ) ]_vars

\* C3: GET /:shortCode and GET /analytics/:shortCode for a code that is no
\* key of the registry (never stored, or evicted) answer 404 and leave the
\* registry as it was.
C3_UnknownCodeNotFound ==
    [][ ( /\ res'.op \in {"redirect", "analytics"}
          /\ res'.arg \notin DOMAIN urlDatabase )
        => ( res'.status = 404 /\ urlDatabase' = urlDatabase ) ]_vars

\* C4: for a code whose record is present, GET /:shortCode answers 410
\* exactly when the clock is strictly past the record's expiresAt, and
\* otherwise (up to and including expiresAt) answers 301 with the record's
\* originalUrl as Location.
C4_GoneIffStrictlyPastExpiry ==
    [][ ( /\ res'.op = "redirect"
          /\ res'.arg \in DOMAIN urlDatabase )
        => LET rec == urlDatabase[res'.arg] IN
           /\ res'.status \in {301, 410}
           /\ res'.status = 410 <=> Expired(rec, now)
           /\ res'.status = 301 => res'.url = rec.originalUrl ]_vars

\* C4, its case: a redirect served at the very millisecond of expiresAt,
\* in a run in which another code has already answered 410.
C4_Witness ==
    /\ res.op = "redirect" /\ res.status = 301
    /\ res.arg \in DOMAIN urlDatabase
    /\ urlDatabase[res.arg].expiresAt.valid
    /\ now = urlDatabase[res.arg].expiresAt.ms
    /\ gone # {}

C6_ClicksCountRedirects ==
    /\ \A c \in DOMAIN urlDatabase :
          c \in DOMAIN hist /\ urlDatabase[c].clicks = hist[c].redirects
    /\ ( res.op = "analytics" /\ res.status = 200 )
       => ( res.arg \in DOMAIN hist /\ res.clicks = hist[res.arg].redirects )

\* C6, its case: analytics reporting two clicks after two redirects.
C6_Witness ==
    /\ res.op = "analytics" /\ res.status = 200
    /\ res.clicks >= 2
    /\ hist[res.arg].redirects = res.clicks

\* C7: GET /analytics/:shortCode leaves the whole registry as it was, and
\* answers as the previous request did when that was the same analytics
\* request.
C7_AnalyticsReadOnly ==
    [][ res'.op = "analytics"
        => ( /\ urlDatabase' = urlDatabase
             /\ ( res.op = "analytics" /\ res.arg = res'.arg ) => res' = res ) ]_vars

\* C7, its case: analytics served for a record that has been clicked.
C7_Witness ==
    /\ res.op = "analytics" /\ res.status = 200
    /\ res.arg \in DOMAIN urlDatabase
    /\ urlDatabase[res.arg].clicks > 0
    /\ res.clicks = urlDatabase[res.arg].clicks

\* C8: for a code whose record is present and whose expiresAt has passed,
\* GET /analytics/:shortCode answers 200 with the record's originalUrl,
\* clicks, expiresAt and custom flag, and the record stays in the registry.
C8_AnalyticsIgnoresExpiry ==
    [][ ( /\ res'.op = "analytics"
          /\ res'.arg \in DOMAIN urlDatabase
          /\ Expired(urlDatabase[res'.arg], now) )
        => LET rec == urlDatabase[res'.arg] IN
           /\ res'.status = 200
           /\ res'.shortCode = res'.arg
           /\ res'.url = rec.originalUrl
           /\ res'.clicks = rec.clicks
           /\ res'.expiresAt = ToISOString(rec.expiresAt)
           /\ res'.custom = rec.custom
           /\ res'.arg \in DOMAIN urlDatabase'
           /\ urlDatabase'[res'.arg] = rec ]_vars

\* C8, its case: a 200 from analytics for a record past its expiresAt.
C8_Witness ==
    /\ res.op = "analytics" /\ res.status = 200
    /\ res.arg \in DOMAIN urlDatabase
    /\ Expired(urlDatabase[res.arg], now)

\* C9: a GET /:shortCode for a record stored by a POST /shorten that
\* answered 201, served while the record has not expired, answers 301 with
\* exactly the longUrl that POST was given.
C9_RoundTrip ==
    [][ ( /\ res'.op = "redirect"
          /\ res'.arg \in DOMAIN urlDatabase
          /\ res'.arg \in DOMAIN hist
          /\ hist[res'.arg].status = 201
          /\ ~Expired(urlDatabase[res'.arg], now) )
        => ( res'.status = 301 /\ res'.url = hist[res'.arg].longUrl ) ]_vars

\* C9, its case: a redirect to the longUrl of the creating request.
C9_Witness ==
    /\ res.op = "redirect" /\ res.status = 301
    /\ res.arg \in DOMAIN hist
    /\ hist[res.arg].status = 201
    /\ res.url = hist[res.arg].longUrl
    /\ res.url \in WellFormedURLs

C11_GeneratedCodeIsFresh ==
    [][ ( res'.op = "shorten" /\ res'.arg = NoCode /\ res'.status # 400 )
        => \E c \in DOMAIN urlDatabase' :
              /\ c \notin DOMAIN urlDatabase
              /\ DOMAIN urlDatabase' = DOMAIN urlDatabase \cup {c}
              /\ urlDatabase'[c].custom = FALSE
              /\ urlDatabase'[c].clicks = 0
              /\ OthersKept(c)
              /\ res'.status = 201 => res'.shortCode = c ]_vars

\* A generated code was registered next to an expired record still stored.
C11_Witness ==
    /\ res.op = "shorten" /\ res.arg = NoCode /\ res.status = 201
    /\ res.shortCode \in DOMAIN urlDatabase
    /\ \E k \in DOMAIN urlDatabase \ {res.shortCode} : Expired(urlDatabase[k], now)

\* A request body the service has to reject: longUrl missing or empty, or
\* no absolute URL, or a customShortCode given that is not 4 to 15
\* alphanumeric characters.
Rejected(longUrl, customShortCode) ==
    \/ longUrl = Undefined
    \/ longUrl = ""
    \/ longUrl \notin WellFormedURLs
    \/ /\ customShortCode # NoCode
       /\ \/ Len(customShortCode) \notin 4..15
          \/ \E i \in 1..Len(customShortCode) : customShortCode[i] \notin AlnumChars

\* C12: POST /shorten with a body that has to be rejected answers 400 and
\* leaves the registry as it was: a step that is not such a 400 is the
\* step of no rejected body.
C12_RejectedBodyChangesNothing ==
    [][ res'.op = "shorten"
        => \/ res'.status = 400 /\ urlDatabase' = urlDatabase
           \/ \A longUrl \in RequestLongUrls, validityMinutes \in RequestValidities :
                 Rejected(longUrl, res'.arg)
                 => ~Shorten(longUrl, res'.arg, validityMinutes) ]_vars

\* "valid$code" was answered 400 while the registry holds records.
C12_Witness ==
    /\ res.op = "shorten" /\ res.status = 400
    /\ res.arg = <<"v","a","l","i","d","$","c","o","d","e">>
    /\ DOMAIN urlDatabase # {}

\* The minutes the claimed rule allows for a validityMinutes value whose
\* date fits a Date: its integer part when that is greater than 0, and 30
\* when it is missing, not a number, zero or negative. For a positive value
\* below 1 (integer part 0) both 0 and 30 are allowed.
ClaimedMinutes(v) ==
    IF v.t \in {"undefined", "string"} THEN {30}
    ELSE IF v.t = "number" THEN (IF v.n > 0 THEN {v.n} ELSE {30})
    ELSE IF v.t = "fraction" THEN (IF v.n > 0 THEN {v.n} ELSE {0, 30})
    ELSE {0, 30}

\* The expiry times the claimed rule allows at time t. A value of 10^12
\* minutes or more is beyond the range of a Date.
ClaimedExpiry(v, t) ==
    IF v.t \in {"huge", "giant"} THEN {InvalidDate}
    ELSE { [valid |-> TRUE, ms |-> t + m * 60 * 1000] : m \in ClaimedMinutes(v) }

\* C13: a POST /shorten answered 201 stores, and returns as ISO text, the
\* expiry time now + m minutes, m being validityMinutes as an integer when
\* that is greater than 0 and 30 when it is missing, not a number, zero or
\* negative.
C13_ExpiryFollowsValidityMinutes ==
    [][ ( res'.op = "shorten" /\ res'.status = 201 )
        => \A validityMinutes \in RequestValidities :
              Shorten(res'.url, res'.arg, validityMinutes)
              => /\ urlDatabase'[res'.shortCode].expiresAt
                        \in ClaimedExpiry(validityMinutes, now)
                 /\ res'.expiresAt
                        = ToISOString(urlDatabase'[res'.shortCode].expiresAt) ]_vars

\* C14: the handlers run one at a time, so requests that arrive together
\* for one customShortCode are served in some order, each against the
\* registry the one before left. Of the requests for a valid code that get
\* past the longUrl checks, the one that finds the code unused wins: it
\* answers 201 and registers its longUrl, next to the records found; each
\* one that finds the code in use answers 409 and leaves the registry, the
\* winner's record included, as it was.
C14_OneWinnerPerCustomCode ==
    [][ ( /\ res'.op = "shorten"
          /\ res'.arg # NoCode
          /\ ~Rejected("https://example.com", res'.arg)
          /\ res'.status # 400 )
        => IF res'.arg \in DOMAIN urlDatabase
           THEN res'.status = 409 /\ urlDatabase' = urlDatabase
           ELSE /\ res'.status = 201
                /\ DOMAIN urlDatabase' = DOMAIN urlDatabase \cup {res'.arg}
                /\ urlDatabase'[res'.arg].originalUrl = res'.url
                /\ OthersKept(res'.arg) ]_vars

\* C15: isValidShortCode(code) returns true exactly when every character
\* of code is in [A-Za-z0-9] and code is 4 to 15 characters long, and the
\* call leaves the registry as it was.
C15_ValidIffAlnumOfLength4To15 ==
    [][ ( call'.fn = "isValidShortCode" /\ call'.pc = "returned" )
        => /\ call'.code = call.code
           /\ call'.ret <=> ( /\ \A i \in 1..Len(call.code) : call.code[i] \in AlnumChars
                              /\ 4 <= Len(call.code)
                              /\ Len(call.code) <= 15 )
           /\ urlDatabase' = urlDatabase ]_vars

\* A code of exactly 15 characters was accepted, with a record stored.
C15_Witness ==
    /\ call.fn = "isValidShortCode" /\ call.pc = "returned"
    /\ call.ret /\ Len(call.code) = 15
    /\ DOMAIN urlDatabase # {}

\* C16: a key leaves the registry only in a GET /:shortCode for that very
\* key, answered 410, served strictly after the record's expiresAt; no
\* other request and no passing of time removes a key.
C16_RemovedOnlyByExpiredRedirect ==
    [][ \A c \in DOMAIN urlDatabase :
          c \notin DOMAIN urlDatabase'
          => /\ res'.op = "redirect" /\ res'.arg = c /\ res'.status = 410
             /\ now' = now
             /\ Expired(urlDatabase[c], now) ]_vars

\* A code was just evicted while another expired record is still stored.
C16_Witness ==
    /\ res.op = "redirect" /\ res.status = 410
    /\ res.arg \notin DOMAIN urlDatabase
    /\ \E k \in DOMAIN urlDatabase : Expired(urlDatabase[k], now)

\* C17: the handlers run one at a time, so GET /:shortCode requests that
\* arrive together for one code are served in some order, each against the
\* registry the one before left. A request that finds the record live
\* answers 301 and adds exactly 1 to its clicks, changing nothing else; the
\* request that finds it expired answers 410 and deletes it; every request
\* that comes after the deletion finds no record, answers 404, and neither
\* redirects nor changes the registry.
C17_RedirectIsOneCriticalSection ==
    [][ res'.op = "redirect"
        => LET c == res'.arg IN
           /\ ( c \in DOMAIN urlDatabase /\ ~Expired(urlDatabase[c], now) )
              => /\ res'.status = 301
                 /\ urlDatabase' = [urlDatabase EXCEPT ![c].clicks = @ + 1]
           /\ ( c \in DOMAIN urlDatabase /\ Expired(urlDatabase[c], now) )
              => /\ res'.status = 410
                 /\ c \notin DOMAIN urlDatabase'
                 /\ c \in gone'
           /\ c \in gone
              => /\ c \notin DOMAIN urlDatabase
                 /\ res'.status = 404
                 /\ urlDatabase' = urlDatabase ]_vars

\* Two redirects of one code were both counted, in a run in which a code
\* has been evicted.
C17_Witness ==
    /\ res.op = "redirect" /\ res.status = 301
    /\ res.arg \in DOMAIN urlDatabase
    /\ urlDatabase[res.arg].clicks = 2
    /\ gone # {}

\* C18: a record that stays in the registry over a request keeps its
\* originalUrl, expiresAt and custom, and its clicks never decrease: the
\* only change to it is the + 1 on clicks made by the GET /:shortCode for
\* its own code that answers 301. A record enters the registry, by
\* POST /shorten, with clicks = 0, and clicks is always a natural number.
C18_RecordChangesOnlyByClick ==
    /\ [](\A c \in DOMAIN urlDatabase : urlDatabase[c].clicks \in Nat)
    /\ [][ /\ \A c \in DOMAIN urlDatabase \cap DOMAIN urlDatabase' :
                \/ urlDatabase'[c] = urlDatabase[c]
                \/ /\ res'.op = "redirect" /\ res'.arg = c /\ res'.status = 301
                   /\ urlDatabase'[c] = [urlDatabase[c] EXCEPT !.clicks = @ + 1]
           /\ \A c \in DOMAIN urlDatabase' \ DOMAIN urlDatabase :
                res'.op = "shorten" /\ urlDatabase'[c].clicks = 0 ]_vars

\* A POST /shorten for a code whose record has been followed was answered
\* 409, and the record still has its clicks.
C18_Witness ==
    /\ res.op = "shorten" /\ res.status = 409
    /\ res.arg \in DOMAIN urlDatabase
    /\ urlDatabase[res.arg].clicks >= 1

\* C19: with fair draws generateShortCode() returns whenever an identifier
\* shortid can draw is no key of the registry; what it returns is such an
\* identifier, one of those POST /shorten picks its code from, so with
\* every identifier a key it never returns, after any number of rounds;
\* it goes round again only when the identifier drawn is a key; and it
\* leaves the registry as it was.
C19_GenerateReturnsWhenACodeIsFree ==
    /\ ( \E id \in ShortidDraws : id \notin DOMAIN urlDatabase )
          ~> ( call.pc = "returned" )
    /\ []( call.pc = "returned"
           => /\ call.code \in ShortidDraws \ DOMAIN urlDatabase
              /\ call.code \in generateShortCode(urlDatabase) )
    /\ [][ ( call.pc = "test" /\ call'.pc = "draw" )
             => call.code \in DOMAIN urlDatabase ]_vars
    /\ [][ urlDatabase' = urlDatabase ]_vars

\* The loop returned a code while another identifier is a key.
C19_Witness ==
    /\ call.fn = "generateShortCode" /\ call.pc = "returned"
    /\ \E k \in ShortidDraws : k \in DOMAIN urlDatabase

====
